---- MODULE Spec2Model ----
(***************************************************************************)
(* A model of neuralhydrology/datasetzoo/coloradoswe.py: the loaders of    *)
(* the ColoradoSWE data set.  Every module-level function of the file is   *)
(* an operator that maps the part of the data directory it reads, and its  *)
(* arguments, to its outcome: a status ("ok" or the exception raised), the *)
(* value returned and the loaders it invoked.  One action per function     *)
(* calls it on inputs drawn from bounded sets and records the outcome.     *)
(*                                                                         *)
(* Conventions.  Strings the code inspects (basin identifiers, column      *)
(* names) are sequences of one-character strings.  A table (DataFrame) is  *)
(* a record [index, col]: index is the set of row labels, col maps each    *)
(* column name to a function from index to cells; labels are unique and   *)
(* date labels are chronological, as in the CAMELS files.  A date is the   *)
(* number of days since 1970-01-01.  A cell is NaN or an exact rational    *)
(* (floating-point rounding is not modelled).                              *)
(***************************************************************************)
EXTENDS Integers, Sequences, FiniteSets, TLC

VARIABLES pc, call, result

vars == <<pc, call, result>>

---------------------------------------------------------------------------
(* Natural numbers of any size: little-endian sequences of base-10000     *)
(* limbs without high zero limbs (TLC's own integers are 32 bits wide).   *)

RECURSIVE BigNorm(_)
BigNorm(a) ==
    IF a = <<>> THEN <<>>
    ELSE IF a[Len(a)] = 0 THEN BigNorm(SubSeq(a, 1, Len(a) - 1))
    ELSE a

RECURSIVE BigOfNat(_)
BigOfNat(k) == IF k = 0 THEN <<>> ELSE <<k % 10000>> \o BigOfNat(k \div 10000)

RECURSIVE BigAddC(_, _, _)
BigAddC(a, b, c) ==
    IF a = <<>> /\ b = <<>> THEN (IF c = 0 THEN <<>> ELSE <<c>>)
    ELSE LET x == IF a = <<>> THEN 0 ELSE Head(a)
             y == IF b = <<>> THEN 0 ELSE Head(b)
             s == x + y + c
         IN <<s % 10000>> \o BigAddC(IF a = <<>> THEN <<>> ELSE Tail(a),
                                    IF b = <<>> THEN <<>> ELSE Tail(b),
                                    s \div 10000)

BigAdd(a, b) == BigNorm(BigAddC(a, b, 0))

RECURSIVE BigMulLimb(_, _, _)
BigMulLimb(a, k, c) ==
    IF a = <<>> THEN (IF c = 0 THEN <<>> ELSE <<c>>)
    ELSE LET s == Head(a) * k + c
         IN <<s % 10000>> \o BigMulLimb(Tail(a), k, s \div 10000)

RECURSIVE BigMul(_, _)
BigMul(a, b) ==
    IF b = <<>> THEN <<>>
    ELSE BigAdd(BigNorm(BigMulLimb(a, Head(b), 0)),
                IF BigMul(a, Tail(b)) = <<>> THEN <<>>
                ELSE <<0>> \o BigMul(a, Tail(b)))

(* Cells: NaN, or the rational (-1)^neg * n / d with d > 0. *)
NaN == [nan |-> TRUE, neg |-> FALSE, n |-> <<>>, d |-> <<1>>]

Rat(neg, n, d) == [nan |-> FALSE, neg |-> neg /\ n # <<>>, n |-> n, d |-> d]

Num(i) == Rat(i < 0, BigOfNat(IF i < 0 THEN -i ELSE i), <<1>>)

(* A decimal literal: mant * 10^-3, mant given in limbs. *)
Milli(mant) == Rat(FALSE, mant, <<1000>>)

RatMul(x, y) ==
    IF x.nan \/ y.nan THEN NaN
    ELSE Rat(x.neg # y.neg, BigMul(x.n, y.n), BigMul(x.d, y.d))

(* x / y for y # 0 *)
RatDiv(x, y) ==
    IF x.nan \/ y.nan THEN NaN
    ELSE Rat(x.neg # y.neg, BigMul(x.n, y.d), BigMul(x.d, y.n))

RatEq(x, y) ==
    /\ ~x.nan /\ ~y.nan
    /\ x.neg = y.neg
    /\ BigMul(x.n, y.d) = BigMul(y.n, x.d)

(* The comparison `cell < 0`: False for NaN. *)
IsNegative(x) == ~x.nan /\ x.neg

IsMissing(x) == x.nan

---------------------------------------------------------------------------
(* Dates. *)

(* pd.to_datetime of a year, month, day: days since 1970-01-01 *)
to_datetime(y, m, d) ==
    LET yy  == IF m <= 2 THEN y - 1 ELSE y
        era == yy \div 400
        yoe == yy - era * 400
        mp  == (m + 9) % 12
        doy == (153 * mp + 2) \div 5 + d - 1
        doe == yoe * 365 + yoe \div 4 - yoe \div 100 + doy
    IN era * 146097 + doe - 719468

Stamp(ymd) == to_datetime(ymd[1], ymd[2], ymd[3])

(* A date index without gaps: every day between two of its dates is in it *)
NoGaps(index) ==
    \A a \in index : \A b \in index : a < b => \E c \in index : c = a + 1

---------------------------------------------------------------------------
(* Strings. *)

UpperCase == <<"A","B","C","D","E","F","G","H","I","J","K","L","M",
               "N","O","P","Q","R","S","T","U","V","W","X","Y","Z">>

LowerCase == <<"a","b","c","d","e","f","g","h","i","j","k","l","m",
               "n","o","p","q","r","s","t","u","v","w","x","y","z">>

(* str.lower() *)
lower(s) ==
    [i \in DOMAIN s |->
        IF \E k \in DOMAIN UpperCase : UpperCase[k] = s[i]
        THEN LowerCase[CHOOSE k \in DOMAIN UpperCase : UpperCase[k] = s[i]]
        ELSE s[i]]

(* sub in s *)
Contains(sub, s) ==
    \E i \in 0..(Len(s) - Len(sub)) : SubSeq(s, i + 1, i + Len(sub)) = sub

---------------------------------------------------------------------------
(* Tables. *)

Table(index, col) == [index |-> index, col |-> col]

Columns(df) == DOMAIN df.col

(* df.loc[label:, :] on a chronological index *)
SliceFrom(df, label) ==
    LET keep == {t \in df.index : t >= label}
    IN Table(keep, [c \in Columns(df) |-> [t \in keep |-> df.col[c][t]]])

(* df.loc[:label, :] on a chronological index *)
SliceTo(df, label) ==
    LET keep == {t \in df.index : t <= label}
    IN Table(keep, [c \in Columns(df) |-> [t \in keep |-> df.col[c][t]]])

(* df[name] = series: a new or replaced column, the series aligned on     *)
(* df's index (labels of the series that df lacks are dropped, labels of  *)
(* df that the series lacks get NaN).                                    *)
SetColumn(df, name, series) ==
    LET aligned == [t \in df.index |->
                       IF t \in DOMAIN series THEN series[t] ELSE NaN]
    IN Table(df.index,
             [c \in Columns(df) \cup {name} |->
                 IF c = name THEN aligned ELSE df.col[c]])

(* df.rename(columns={col: rename[col]}) for an injective rename *)
RenameColumns(df, rename(_)) ==
    Table(df.index,
          [c \in {rename(o) : o \in Columns(df)} |->
              df.col[CHOOSE o \in Columns(df) : rename(o) = c]])

(* pd.concat([a, b], axis=1) of tables with disjoint column names: the    *)
(* union of the indexes, NaN where a table has no row.                    *)
ConcatColumns(a, b) ==
    LET index == a.index \cup b.index
    IN Table(index,
             [c \in Columns(a) \cup Columns(b) |->
                 [t \in index |->
                     IF c \in Columns(a)
                     THEN (IF t \in a.index THEN a.col[c][t] ELSE NaN)
                     ELSE (IF t \in b.index THEN b.col[c][t] ELSE NaN)]])

(* an outer join in place of the left join *)
JoinOuter(left, right) ==
    Table(left.index \cup right.index,
          [c \in Columns(left) \cup Columns(right) |->
              [t \in left.index \cup right.index |->
                  IF c \in Columns(left)
                  THEN (IF t \in left.index THEN left.col[c][t] ELSE NaN)
                  ELSE (IF t \in right.index THEN right.col[c][t] ELSE NaN)]])

(* left.join(right, how='left') on the index, column names disjoint *)
JoinLeft(left, right) ==
    Table(left.index,
          [c \in Columns(left) \cup Columns(right) |->
              [t \in left.index |->
                  IF c \in Columns(left) THEN left.col[c][t]
                  ELSE IF t \in right.index THEN right.col[c][t]
                  ELSE NaN]])

(* df[df.index.isin(keys)] *)
FilterIndex(df, keys) ==
    LET keep == df.index \cap keys
    IN Table(keep, [c \in Columns(df) |-> [t \in keep |-> df.col[c][t]]])

Range(seq) == {seq[i] : i \in DOMAIN seq}

---------------------------------------------------------------------------
(* Outcomes.  A call ends "ok" with its value, or with the exception it   *)
(* raised, its message and no value; calls lists the steps and loaders it *)
(* went through, in order.                                                *)

Raise(exc, msg, calls) == [status |-> exc, msg |-> msg, calls |-> calls]

Failed(r) == r.status # "ok"

(* F of the value of v: v is evaluated once and handed on *)
Then(v, F(_)) == CHOOSE r \in {F(x) : x \in {v}} : TRUE

---------------------------------------------------------------------------
(* Names the code uses. *)

c_Year == <<"Y","e","a","r">>
c_Mnth == <<"M","n","t","h">>
c_Day == <<"D","a","y">>
c_prcp == <<"p","r","c","p">>
c_tmin == <<"t","m","i","n">>
c_flow == <<"q","o","b","s","_","c","f","s">>
c_co_swe_ua == <<"c","o","_","s","w","e","_","u","a">>
c_co_swe_snotel == <<"c","o","_","s","w","e","_","s","n","o","t","e","l">>
c_QObs == <<"Q","O","b","s","(","m","m","/","d",")">>

---------------------------------------------------------------------------
(* load_camels_daily_forcings *)

(* A forcing file: the basin its name starts with, three header lines,    *)
(* and one body row per day of days (year, month, day) in chronological   *)
(* order; flow tells whether the body has a c_flow column besides the     *)
(* meteorological ones.  pd.read_csv and the building of the date index.  *)
read_forcing_body(fp) ==
    LET index == {Stamp(ymd) : ymd \in fp.days}
        row(t) == CHOOSE ymd \in fp.days : Stamp(ymd) = t
        names == {c_Year, c_Mnth, c_Day, c_prcp, c_tmin}
                    \cup (IF fp.flow THEN {c_flow} ELSE {})
    IN Table(index,
             [c \in names |->
                 [t \in index |->
                     IF c = c_Year THEN Num(row(t)[1])
                     ELSE IF c = c_Mnth THEN Num(row(t)[2])
                     ELSE IF c = c_Day THEN Num(row(t)[3])
                     ELSE IF c = c_prcp THEN Num(row(t)[3])
                     ELSE IF c = c_tmin THEN Num(row(t)[3] - 15)
                     ELSE Num(row(t)[3] - 2)]])

(* forcing_path.glob(f'**/{basin_id}_*_forcing_leap.txt'), in the order   *)
(* of the directory listing                                               *)
glob_forcing(forcing_path, basin_id) ==
    SelectSeq(forcing_path.files, LAMBDA f : f.basin = basin_id)

(* the area read from the second line of the header *)
read_area_second_line(fp) == fp.header[2]

(* the area is the third line of the header *)
read_area(fp) == fp.header[3]

(* the loader searching for the file before it checks the directory *)
load_camels_daily_forcings_glob_first(data_dir, basin_id, forcings) ==
    Then(data_dir.basin_mean_forcing[forcings], LAMBDA forcing_path :
        Then(glob_forcing(forcing_path, basin_id), LAMBDA file_path :
            IF file_path = <<>>
            THEN Raise("FileNotFoundError", "No file for Basin", <<"glob">>)
            ELSE IF ~forcing_path.is_dir
            THEN Raise("OSError", "does not exist", <<"glob", "is_dir">>)
            ELSE [status |-> "ok", calls |-> <<"glob", "is_dir", "open">>,
                  df |-> read_forcing_body(file_path[1]),
                  area |-> read_area(file_path[1])]))

load_camels_daily_forcings(data_dir, basin_id, forcings) ==
    Then(data_dir.basin_mean_forcing[forcings], LAMBDA forcing_path :
        IF ~forcing_path.is_dir
        THEN Raise("OSError", "does not exist", <<"is_dir">>)
        ELSE Then(glob_forcing(forcing_path, basin_id), LAMBDA file_path :
            IF file_path = <<>>
            THEN Raise("FileNotFoundError", "No file for Basin", <<"is_dir", "glob">>)
            ELSE [status |-> "ok",
                  calls |-> <<"is_dir", "glob", "open">>,
                  df |-> read_forcing_body(file_path[1]),
                  area |-> read_area(file_path[1])]))

---------------------------------------------------------------------------
(* load_and_add_SWE_data_to_forcing *)

(* An enrichment file: whether it exists, the days it has a row for, and  *)
(* the column names it has.  kind is 100 for the UA product, 200 for the  *)
(* SNOTEL one (the cell values differ).                                   *)
read_swe(file, kind) ==
    LET index == {Stamp(ymd) : ymd \in file.days}
        row(t) == CHOOSE ymd \in file.days : Stamp(ymd) = t
    IN Table(index,
             [c \in file.columns |-> [t \in index |-> Num(kind + row(t)[3])]])

(* the column of a basin in the UA file: f"sum_{basin[1:]}" *)
ua_column(basin) == <<"s","u","m","_">> \o Tail(basin)

(* the column of a basin in the SNOTEL file: f"{basin[1:]}" *)
snotel_column(basin) == Tail(basin)

(* df_swe.loc[:"2014-12-31", :] *)
swe_cut(df_swe) == SliceTo(df_swe, Stamp(<<2014, 12, 31>>))

(* df.loc["1999-10-01":, :] after the first pass *)
truncate_first(df) == SliceFrom(df, Stamp(<<1999, 10, 1>>))

(* the second truncation cutting at the first pass's date *)
truncate_second_at_first(df) == SliceFrom(df, Stamp(<<1999, 10, 1>>))

(* df.loc["2000-10-01":, :] after the second pass *)
truncate_second(df) == SliceFrom(df, Stamp(<<2000, 10, 1>>))

(* df.loc[labels, name] = series raises KeyError when a label of the     *)
(* list is not in df's index: a list of row labels never enlarges.        *)
loc_labels_found(df, labels) == labels \subseteq df.index

(* df.loc[labels, name] = series, every label found: the new column has   *)
(* the series' value at each label and NaN in every other row.            *)
loc_assign(df, labels, name, series) ==
    Table(df.index,
          [c \in Columns(df) \cup {name} |->
              IF c = name
              THEN [t \in df.index |-> IF t \in labels THEN series[t] ELSE NaN]
              ELSE df.col[c]])

(* the second pass, lines 307 to 318 *)
add_snotel(data_dir, df, basin) ==
    Then(data_dir.colorado_swe.snotel, LAMBDA snotel :
        IF ~snotel.exists
        THEN Raise("OSError", "does not exist",
                   <<"ua", "column", "assign", "snotel">>)
        ELSE Then(swe_cut(read_swe(snotel, 200)), LAMBDA df_swe :
            IF snotel_column(basin) \notin Columns(df_swe)
            THEN Raise("KeyError", "column",
                       <<"ua", "column", "assign", "snotel", "column">>)
            ELSE IF ~loc_labels_found(df, df_swe.index)
            THEN Raise("KeyError", "not in index",
                       <<"ua", "column", "assign", "snotel", "column", "assign">>)
            ELSE [status |-> "ok",
                  calls |-> <<"ua", "column", "assign", "snotel", "column", "assign">>,
                  df |-> truncate_second(
                             loc_assign(df, df_swe.index, c_co_swe_snotel,
                                        df_swe.col[snotel_column(basin)]))]))

load_and_add_SWE_data_to_forcing(data_dir, df, basin) ==
    Then(data_dir.colorado_swe.ua, LAMBDA ua :
        IF ~ua.exists THEN Raise("OSError", "does not exist", <<"ua">>)
        ELSE Then(swe_cut(read_swe(ua, 100)), LAMBDA df_swe :
            IF ua_column(basin) \notin Columns(df_swe)
            THEN Raise("KeyError", "column", <<"ua", "column">>)
            ELSE IF ~loc_labels_found(df, df_swe.index)
            THEN Raise("KeyError", "not in index", <<"ua", "column", "assign">>)
            ELSE Then(truncate_first(
                          loc_assign(df, df_swe.index, c_co_swe_ua,
                                     df_swe.col[ua_column(basin)])),
                      LAMBDA df1 : add_snotel(data_dir, df1, basin))))

---------------------------------------------------------------------------
(* load_hydroatlas12_daily_forcing *)

c_apcpsfc == <<"a","p","c","p","s","f","c">>
c_dswrfsfc == <<"d","s","w","r","f","s","f","c">>
c_pressfc == <<"p","r","e","s","s","f","c">>
c_tmp2m_max == <<"t","m","p","2","m","_","m","a","x">>
c_tmp2m_min == <<"t","m","p","2","m","_","m","i","n">>

(* the five files, in the order the code reads them *)
AuxVariables == <<c_apcpsfc, c_dswrfsfc, c_pressfc, c_tmp2m_max, c_tmp2m_min>>

(* A per-variable file: the days it has a row for and the basins it has a *)
(* column for.  file[[basin]].rename(columns={basin: variable}): the      *)
(* basin's column under the variable's name; the value of variable k on   *)
(* a day is 10 * k + day of the month.                                    *)
read_aux_column(file, k) ==
    LET index == {Stamp(ymd) : ymd \in file.days}
        row(t) == CHOOSE ymd \in file.days : Stamp(ymd) = t
    IN Table(index,
             [c \in {AuxVariables[k]} |-> [t \in index |-> Num(10 * k + row(t)[3])]])

RECURSIVE concat_columns(_)
(* pd.concat(dfs, axis=1) of a non-empty list *)
concat_columns(dfs) ==
    IF Len(dfs) = 1 THEN dfs[1]
    ELSE Then(concat_columns(SubSeq(dfs, 1, Len(dfs) - 1)), LAMBDA first :
             ConcatColumns(first, dfs[Len(dfs)]))

MinOf(S) == CHOOSE x \in S : \A y \in S : x <= y

MaxOf(S) == CHOOSE x \in S : \A y \in S : x >= y

(* the combined table left on the dates the files have *)
reindex_none(df, start, end) == df

(* df.reindex(pd.date_range(start, end, freq='D')) *)
reindex_daily(df, start, end) ==
    Table(start..end,
          [c \in Columns(df) |->
              [t \in start..end |-> IF t \in df.index THEN df.col[c][t] ELSE NaN]])

(* the output of print(df.head()) is not modelled *)
load_hydroatlas12_daily_forcing(data_dir, basin) ==
    Then([k \in 1..5 |-> data_dir.hydroatlas_forcing[AuxVariables[k]]], LAMBDA files :
        IF \E k \in 1..5 : basin \notin files[k].basins
        THEN Raise("KeyError", "column", <<"read_csv", "column">>)
        ELSE Then(concat_columns([k \in 1..5 |-> read_aux_column(files[k], k)]),
                  LAMBDA combined_df :
            IF combined_df.index = {}
            THEN Raise("ValueError", "min() arg is an empty sequence",
                       <<"read_csv", "column", "concat", "min">>)
            ELSE [status |-> "ok",
                  calls |-> <<"read_csv", "column", "concat", "min", "reindex">>,
                  df |-> reindex_daily(combined_df, MinOf(combined_df.index),
                                       MaxOf(combined_df.index))]))

---------------------------------------------------------------------------
(* load_basin_forcings *)

(* b in list *)
InList(b, list) == \E i \in DOMAIN list : list[i] = b

(* forcing_source with the HydroAtlas catalog tested first *)
forcing_source_hydroatlas_first(data_dir, basin_id) ==
    IF InList(basin_id, data_dir.list_colorado_hydroatlas_basins) THEN "hydroatlas"
    ELSE IF InList(basin_id, data_dir.list_671_camels_basins) THEN "camels"
    ELSE "neither"

(* forcing_source without the final else: an unlisted basin is taken for  *)
(* a HydroAtlas one                                                       *)
forcing_source_no_else(data_dir, basin_id) ==
    IF InList(basin_id, data_dir.list_671_camels_basins) THEN "camels"
    ELSE "hydroatlas"

(* the branch of load_basin_forcings a basin takes *)
forcing_source(data_dir, basin_id) ==
    IF InList(basin_id, data_dir.list_671_camels_basins) THEN "camels"
    ELSE IF InList(basin_id, data_dir.list_colorado_hydroatlas_basins) THEN "hydroatlas"
    ELSE "neither"

(* the area of a basin of the HydroAtlas catalog *)
hydroatlas_area == 1

(* lines 170 and 171 *)
load_camels_branch(data_dir, basin_id, forcings) ==
    Then(load_camels_daily_forcings(data_dir, basin_id, forcings), LAMBDA loaded :
        IF Failed(loaded)
        THEN Raise(loaded.status, loaded.msg, <<"load_camels_daily_forcings">>)
        ELSE Then(load_and_add_SWE_data_to_forcing(data_dir, loaded.df, basin_id),
                  LAMBDA swe :
            IF Failed(swe)
            THEN Raise(swe.status, swe.msg,
                       <<"load_camels_daily_forcings",
                         "load_and_add_SWE_data_to_forcing">>)
            ELSE [status |-> "ok",
                  calls |-> <<"load_camels_daily_forcings",
                              "load_and_add_SWE_data_to_forcing">>,
                  df |-> swe.df, area |-> loaded.area]))

(* lines 173 to 175 *)
load_hydroatlas_branch(data_dir, basin_id) ==
    Then(load_hydroatlas12_daily_forcing(data_dir, basin_id), LAMBDA aux :
        IF Failed(aux)
        THEN Raise(aux.status, aux.msg, <<"load_hydroatlas12_daily_forcing">>)
        ELSE [status |-> "ok",
              calls |-> <<"load_hydroatlas12_daily_forcing">>,
              df |-> aux.df, area |-> hydroatlas_area])

load_basin_forcings(data_dir, basin_id, forcings) ==
    Then(forcing_source(data_dir, basin_id), LAMBDA source :
        IF source = "camels" THEN load_camels_branch(data_dir, basin_id, forcings)
        ELSE IF source = "hydroatlas" THEN load_hydroatlas_branch(data_dir, basin_id)
        ELSE Raise("RuntimeError", "Basin ID not found in either CAMELS Nor HydroAtlas",
                   <<>>))

---------------------------------------------------------------------------
(* load_all_discharge *)

c_basin == <<"b","a","s","i","n">>
c_QObs_cfs == <<"Q","O","b","s">>
c_flag == <<"f","l","a","g">>

(* discharge_path.glob(f'**/{basin}_streamflow_qc.txt') *)
glob_streamflow(listing, basin) ==
    SelectSeq(listing, LAMBDA f : f.basin = basin)

(* A streamflow file: the basin of its name and, per day, the flow in     *)
(* cubic feet per second and the quality flag.  pd.read_csv with the six  *)
(* column names, and the date index.                                      *)
read_streamflow(file) ==
    LET index == {Stamp(ymd) : ymd \in DOMAIN file.rows}
        row(t) == CHOOSE ymd \in DOMAIN file.rows : Stamp(ymd) = t
    IN Table(index,
             [c \in {c_basin, c_Year, c_Mnth, c_Day, c_QObs_cfs, c_flag} |->
                 [t \in index |->
                     IF c = c_basin THEN file.basin
                     ELSE IF c = c_Year THEN Num(row(t)[1])
                     ELSE IF c = c_Mnth THEN Num(row(t)[2])
                     ELSE IF c = c_Day THEN Num(row(t)[3])
                     ELSE IF c = c_QObs_cfs THEN Num(file.rows[row(t)].QObs)
                     ELSE file.rows[row(t)].flag]])

(* the conversion without the seconds of a day *)
cfs_to_mm_per_second(QObs, area) ==
    RatDiv(RatMul(Milli(<<6592, 1684, 283>>), QObs),
           RatMul(Num(area), Num(1000000)))

(* 28316846.592 * QObs * 86400 / (area * 10**6), left to right *)
cfs_to_mm_per_day(QObs, area) ==
    RatDiv(RatMul(RatMul(Milli(<<6592, 1684, 283>>), QObs), Num(86400)),
           RatMul(Num(area), Num(1000000)))

load_all_discharge(data_dir, basin, area) ==
    Then(glob_streamflow(data_dir.usgs_streamflow, basin), LAMBDA file_path :
        IF file_path = <<>>
        THEN Raise("FileNotFoundError", "No file for Basin", <<"glob">>)
        ELSE Then(read_streamflow(file_path[1]), LAMBDA df :
            [status |-> "ok",
             calls |-> <<"glob", "read_csv">>,
             QObs |-> [t \in df.index |->
                          cfs_to_mm_per_day(df.col[c_QObs_cfs][t], area)]]))

---------------------------------------------------------------------------
(* ColoradoSWE._load_basin_data *)

(* the column test without lower-casing the name *)
is_qobs_column_case_sensitive(col) == Contains(<<"q","o","b","s">>, col)

(* "qobs" in col.lower() *)
is_qobs_column(col) == Contains(<<"q","o","b","s">>, lower(col))

(* df.loc[df[col] < 0, col] = np.nan for every qobs column *)
replace_invalid_discharge(df) ==
    Table(df.index,
          [c \in Columns(df) |->
              IF is_qobs_column(c)
              THEN [t \in df.index |->
                       IF IsNegative(df.col[c][t]) THEN NaN ELSE df.col[c][t]]
              ELSE df.col[c]])

(* f"{col}_{forcing}" *)
forcing_column(col, forcing) == col \o <<"_">> \o forcing

RECURSIVE load_forcings(_, _, _, _)
(* the loop over cfg.forcings, after its first k rounds: the tables       *)
(* loaded so far and the area of the last one                             *)
load_forcings(cfg, data_dir, basin, k) ==
    Then(IF k = 1 THEN [status |-> "ok", calls |-> <<>>, dfs |-> <<>>]
         ELSE load_forcings(cfg, data_dir, basin, k - 1), LAMBDA prev :
        IF Failed(prev) THEN prev
        ELSE Then(load_basin_forcings(data_dir, basin, cfg.forcings[k]), LAMBDA loaded :
            IF Failed(loaded)
            THEN Raise(loaded.status, loaded.msg,
                       Append(prev.calls, "load_basin_forcings"))
            ELSE [status |-> "ok",
                  calls |-> Append(prev.calls, "load_basin_forcings"),
                  dfs |-> Append(prev.dfs,
                                 IF Len(cfg.forcings) > 1
                                 THEN RenameColumns(loaded.df, LAMBDA col :
                                          forcing_column(col, cfg.forcings[k]))
                                 ELSE loaded.df),
                  area |-> loaded.area]))

(* lines 84 and 85 *)
add_discharge(cfg, data_dir, basin, loop, df) ==
    IF c_QObs \notin cfg.target_variables
    THEN [status |-> "ok", calls |-> loop.calls, df |-> df]
    ELSE Then(load_all_discharge(data_dir, basin, loop.area), LAMBDA discharge :
        IF Failed(discharge)
        THEN Raise(discharge.status, discharge.msg,
                   Append(loop.calls, "load_all_discharge"))
        ELSE [status |-> "ok",
              calls |-> Append(loop.calls, "load_all_discharge"),
              df |-> SetColumn(df, c_QObs, discharge.QObs)])

(* the table before the invalid discharge values are replaced: the        *)
(* forcings side by side and, when it is a target variable, the discharge *)
assemble_basin_data(cfg, data_dir, basin) ==
    IF cfg.forcings = <<>>
    THEN Raise("ValueError", "No objects to concatenate", <<"concat">>)
    ELSE Then(load_forcings(cfg, data_dir, basin, Len(cfg.forcings)), LAMBDA loop :
        IF Failed(loop) THEN loop
        ELSE Then(concat_columns(loop.dfs), LAMBDA df :
            add_discharge(cfg, data_dir, basin, loop, df)))

load_basin_data(cfg, data_dir, basin) ==
    Then(assemble_basin_data(cfg, data_dir, basin), LAMBDA assembled :
        IF Failed(assembled) THEN assembled
        ELSE [status |-> "ok", calls |-> assembled.calls,
              df |-> replace_invalid_discharge(assembled.df)])

---------------------------------------------------------------------------
(* load_camels_attributes, load_camels_hydroatlas,                        *)
(* add_hydroatlas_attributes_to_camels, load_all_attributes               *)

c_huc_02 == <<"h","u","c","_","0","2">>
c_huc == <<"h","u","c">>
c_p_mean == <<"p","_","m","e","a","n">>
c_ele_mt == <<"e","l","e","_","m","t">>
c_PC1 == <<"P","C","1">>

DigitChars == <<"0","1","2","3","4","5","6","7","8","9">>

RECURSIVE str(_)
(* str(x) of a natural number *)
str(k) ==
    IF k < 10 THEN <<DigitChars[k + 1]>>
    ELSE str(k \div 10) \o <<DigitChars[(k % 10) + 1]>>

RECURSIVE zfill(_, _)
(* s.zfill(width) *)
zfill(s, width) == IF Len(s) >= width THEN s ELSE zfill(<<"0">> \o s, width)

(* The camels_*.txt files, each with a row per gauge_id of the attribute  *)
(* set (the CAMELS files all list the same basins): one with the huc_02   *)
(* code, one with a climate attribute.                                    *)
read_attribute_files(attributes) ==
    << Table(attributes.gauge_ids,
             [c \in {c_huc_02} |-> [b \in attributes.gauge_ids |-> attributes.huc_02[b]]]),
       Table(attributes.gauge_ids,
             [c \in {c_p_mean} |->
                 [b \in attributes.gauge_ids |-> Num(attributes.huc_02[b] + 700)]]) >>

(* df['huc'] = df['huc_02'].apply(lambda x: str(x).zfill(2)), then       *)
(* df.drop('huc_02', axis=1)                                              *)
huc_column(df) ==
    Table(df.index,
          [c \in (Columns(df) \ {c_huc_02}) \cup {c_huc} |->
              IF c = c_huc
              THEN [b \in df.index |-> zfill(str(df.col[c_huc_02][b]), 2)]
              ELSE df.col[c]])

(* the basins argument is not used: every basin of the files is returned *)
load_camels_attributes(data_dir, basins) ==
    Then(data_dir.camels_attributes, LAMBDA attributes :
        IF ~attributes.exists
        THEN Raise("RuntimeError", "Attribute folder not found", <<"exists">>)
        ELSE Then(concat_columns(read_attribute_files(attributes)), LAMBDA df :
            [status |-> "ok", calls |-> <<"exists", "read_csv">>,
             df |-> huc_column(df)]))

(* an auxiliary attribute file: one column, a row per gauge_id *)
read_hydroatlas(file, column, offset) ==
    Table(file.gauge_ids,
          [c \in {column} |-> [b \in file.gauge_ids |-> Num(Len(b) + offset)]])

load_camels_hydroatlas(data_dir, basins) ==
    Then(data_dir.hydroatlas_attributes, LAMBDA files :
        IF ~files.raw.is_file
        THEN Raise("RuntimeError", "File not found", <<"is_file">>)
        ELSE IF ~files.pca.is_file
        THEN Raise("RuntimeError", "File not found", <<"is_file", "is_file">>)
        ELSE [status |-> "ok", calls |-> <<"is_file", "is_file", "read_csv">>,
              hydroatlas_df |->
                  FilterIndex(read_hydroatlas(files.raw, c_ele_mt, 300), Range(basins)),
              hydroatlas_pca_df |->
                  FilterIndex(read_hydroatlas(files.pca, c_PC1, 900), Range(basins))])

(* DataFrame.join raises ValueError when a column name is in both tables *)
join_left(left, right) ==
    IF Columns(left) \cap Columns(right) # {}
    THEN Raise("ValueError", "columns overlap", <<"join">>)
    ELSE [status |-> "ok", calls |-> <<"join">>, df |-> JoinLeft(left, right)]

add_hydroatlas_attributes_to_camels(df, hydroatlas_df, hydroatlas_pca_df) ==
    Then(join_left(df, hydroatlas_df), LAMBDA first :
        IF Failed(first) THEN first
        ELSE Then(join_left(first.df, hydroatlas_pca_df), LAMBDA second :
            IF Failed(second)
            THEN Raise("ValueError", "columns overlap", <<"join", "join">>)
            ELSE [status |-> "ok", calls |-> <<"join", "join">>, df |-> second.df]))

(* [b for b in basins if b in list] *)
in_catalog(basins, list) == SelectSeq(basins, LAMBDA b : InList(b, list))

(* any_missing with the check left out *)
any_missing_unchecked(df, basins) == FALSE

(* any(b not in df.index for b in basins) *)
any_missing(df, basins) == \E i \in DOMAIN basins : basins[i] \notin df.index

(* df.loc[basins]: the rows of the basins, in the order of the list *)
select_rows(df, basins) ==
    [df |-> FilterIndex(df, Range(basins)), rows |-> basins]

(* lines 132 to 138 *)
filter_basins(df, basins) ==
    IF basins = <<>>
    THEN [status |-> "ok",
          calls |-> <<"load_camels_attributes", "load_camels_hydroatlas",
                      "add_hydroatlas_attributes_to_camels">>,
          df |-> df]
    ELSE IF any_missing(df, basins)
    THEN Raise("ValueError", "Some basins are missing static attributes.",
               <<"load_camels_attributes", "load_camels_hydroatlas",
                 "add_hydroatlas_attributes_to_camels", "filter">>)
    ELSE [status |-> "ok",
          calls |-> <<"load_camels_attributes", "load_camels_hydroatlas",
                      "add_hydroatlas_attributes_to_camels", "filter">>,
          df |-> select_rows(df, basins).df,
          rows |-> select_rows(df, basins).rows]

load_all_attributes(data_dir, basins) ==
    Then(in_catalog(basins, data_dir.list_671_camels_basins), LAMBDA camels_basins :
      Then(load_camels_attributes(data_dir, camels_basins), LAMBDA camels :
        IF Failed(camels)
        THEN Raise(camels.status, camels.msg, <<"load_camels_attributes">>)
        ELSE Then(load_camels_hydroatlas(data_dir, camels_basins), LAMBDA hydroatlas :
            IF Failed(hydroatlas)
            THEN Raise(hydroatlas.status, hydroatlas.msg,
                       <<"load_camels_attributes", "load_camels_hydroatlas">>)
            ELSE Then(add_hydroatlas_attributes_to_camels(
                          camels.df, hydroatlas.hydroatlas_df,
                          hydroatlas.hydroatlas_pca_df), LAMBDA joined :
                IF Failed(joined)
                THEN Raise(joined.status, joined.msg,
                           <<"load_camels_attributes", "load_camels_hydroatlas",
                             "add_hydroatlas_attributes_to_camels">>)
                ELSE filter_basins(joined.df, basins)))))

---------------------------------------------------------------------------
(* The inputs the calls are drawn from. *)

b0901 == <<"0","9","0","1">>
b0902 == <<"0","9","0","2">>
b1403 == <<"1","4","0","3">>

Basins == {b0901, b0902, b1403}

daymet == <<"d","a","y","m","e","t">>
nldas == <<"n","l","d","a","s">>

Products == {daymet, nldas}

(* days around the dates the code names *)
D19990930 == <<1999, 9, 30>>
D19991001 == <<1999, 10, 1>>
D20000930 == <<2000, 9, 30>>
D20001001 == <<2000, 10, 1>>
D20001002 == <<2000, 10, 2>>
D20141231 == <<2014, 12, 31>>
D20150101 == <<2015, 1, 1>>

ForcingDays == {D19990930, D19991001, D20000930, D20001001, D20001002, D20141231}

(* the day sets of the forcing files of a directory listing: empty, whole *)
(* from 2000-10-01, whole before it only, and with a missing day          *)
ListedDaySets ==
    { {},
      {D20001001, D20001002},
      {D19990930, D19991001, D20001001, D20001002},
      {D20000930, D20001001, D20141231} }

(* header lines: latitude, elevation, area *)
Headers == { <<40, 2500, 500>>, <<39, 3100, 1>> }

(* the most files of one basin in a directory *)
MaxFiles == 2

ForcingFile(basin, header, days, flow) ==
    [basin |-> basin, header |-> header, days |-> days, flow |-> flow]

ListedFiles ==
    { ForcingFile(b, h, ds, FALSE) :
        b \in {b0901, b0902}, h \in Headers, ds \in {{D20001001, D20001002},
                                                     {D20000930, D20001001, D20141231}} }

RECURSIVE SeqsUpTo(_, _)
SeqsUpTo(S, n) ==
    IF n = 0 THEN {<<>>}
    ELSE SeqsUpTo(S, n - 1)
            \cup {Append(q, x) : q \in {r \in SeqsUpTo(S, n - 1) : Len(r) = n - 1},
                                 x \in S}

NoDir == [is_dir |-> FALSE, files |-> <<>>]

Dir(files) == [is_dir |-> TRUE, files |-> files]

(* an enrichment file *)
SweFile(exists, days, columns) ==
    [exists |-> exists, days |-> days, columns |-> columns]

UaDays == {D19990930, D20001001, D20141231, D20150101}

SnotelDays == {D19990930, D20001002, D20150101}

(* the basins the enrichment files have a column for *)
SweBasins == {b0901, b0902}

UaColumns == {ua_column(b) : b \in SweBasins}

SnotelColumns == {snotel_column(b) : b \in SweBasins}

D20001004 == <<2000, 10, 4>>

AuxDays == {D20001001, D20001002, D20001004}

(* a per-variable file of the auxiliary forcing *)
AuxFile(days, basins) == [days |-> days, basins |-> basins]

AuxFiles(first, second, rest, basins) ==
    [v \in Range(AuxVariables) |->
        IF v = c_apcpsfc THEN AuxFile(first, basins)
        ELSE IF v = c_dswrfsfc THEN AuxFile(second, basins)
        ELSE AuxFile(rest, basins)]

(* the basin lists a catalog file may hold *)
Catalogs ==
    {SelectSeq(<<b0901, b0902, b1403>>, LAMBDA b : b \in S) : S \in SUBSET Basins}

(* a streamflow file; -999 is the value CAMELS gives a missing day *)
StreamFile(basin, rows) == [basin |-> basin, rows |-> rows]

FlowRows == { [QObs |-> -999, flag |-> "M"], [QObs |-> 0, flag |-> "A"],
              [QObs |-> 1000, flag |-> "A:e"] }

StreamRows == UNION {[ds -> FlowRows] : ds \in SUBSET {D20001001, D20001002}}

ListedStreamFiles ==
    { StreamFile(b, rows) :
        b \in {b0901, b0902},
        rows \in { (D20001001 :> [QObs |-> 1000, flag |-> "A"]),
                   (D20001001 :> [QObs |-> -999, flag |-> "M"]
                      @@ D20001002 :> [QObs |-> 0, flag |-> "A"]) } }

Areas == {1, 3, 500}

(* the basin lists a caller may ask attributes for *)
MaxBasins == 2

huc_02_of == (b0901 :> 9) @@ (b0902 :> 9) @@ (b1403 :> 14)

AttributeFiles(exists, gauge_ids) ==
    [exists |-> exists, gauge_ids |-> gauge_ids,
     huc_02 |-> [b \in gauge_ids |-> huc_02_of[b]]]

HydroatlasFile(is_file, gauge_ids) == [is_file |-> is_file, gauge_ids |-> gauge_ids]

(* the run configurations: the forcing products and the target variables *)
Configs ==
    [forcings : {<<>>, <<daymet>>, <<nldas>>, <<daymet, nldas>>, <<nldas, daymet>>},
     target_variables : {{}, {c_QObs}}]

(* a whole data directory for the loaders of a basin's time series: both  *)
(* catalogs, a daymet directory with one file per basin, an nldas         *)
(* directory when nldas_days is given, both enrichment files, the five    *)
(* auxiliary files and the streamflow files                               *)
BasinDataDir(camels, hydroatlas, header, days, flow, nldas_dir, ua_days, snotel_days, streamflow) ==
    [list_671_camels_basins |-> camels,
     list_colorado_hydroatlas_basins |-> hydroatlas,
     basin_mean_forcing |->
        (daymet :> Dir(<<ForcingFile(b0901, header, days, flow),
                         ForcingFile(b0902, header, days, flow),
                         ForcingFile(b1403, header, days, flow)>>))
        @@ (nldas :> nldas_dir),
     colorado_swe |-> [ua |-> SweFile(TRUE, ua_days, UaColumns),
                       snotel |-> SweFile(TRUE, snotel_days, SnotelColumns)],
     hydroatlas_forcing |->
        AuxFiles({D20001001}, {D20001001, D20001002}, {D20001004}, {b1403}),
     usgs_streamflow |-> streamflow]

---------------------------------------------------------------------------
(* One action per function: the call with its inputs, and its outcome. *)

Done(c, r) ==
    /\ pc' = "done"
    /\ call' = c
    /\ result' = r

Call_load_camels_daily_forcings ==
    /\ pc = "idle"
    /\ \E basin_id \in Basins, forcings \in Products,
          dir \in {NoDir} \cup {Dir(fs) : fs \in SeqsUpTo(ListedFiles, MaxFiles)} :
        LET data_dir == [basin_mean_forcing |->
                            [p \in Products |-> IF p = forcings THEN dir ELSE NoDir]]
        IN Done([fn |-> "load_camels_daily_forcings", data_dir |-> data_dir,
                 basin_id |-> basin_id, forcings |-> forcings],
                load_camels_daily_forcings(data_dir, basin_id, forcings))

Call_load_and_add_SWE_data_to_forcing ==
    /\ pc = "idle"
    /\ \E basin \in Basins, days \in SUBSET ForcingDays,
          ua \in {SweFile(FALSE, {}, {})}
                    \cup {SweFile(TRUE, ds, UaColumns) : ds \in SUBSET UaDays},
          snotel \in {SweFile(FALSE, {}, {})}
                    \cup {SweFile(TRUE, ds, SnotelColumns) : ds \in SUBSET SnotelDays} :
        /\ basin # b0901 => days = ForcingDays /\ ua.days = {} /\ snotel.days = {}
        /\ basin = b0902 => ua.exists /\ snotel.exists
        /\ LET data_dir == [colorado_swe |-> [ua |-> ua, snotel |-> snotel]]
               df == read_forcing_body(ForcingFile(basin, <<40, 2500, 500>>, days, FALSE))
           IN Done([fn |-> "load_and_add_SWE_data_to_forcing", data_dir |-> data_dir,
                    df |-> df, basin |-> basin],
                   load_and_add_SWE_data_to_forcing(data_dir, df, basin))

Call_load_hydroatlas12_daily_forcing ==
    /\ pc = "idle"
    /\ \E basin \in {b0901, b1403},
          first \in SUBSET AuxDays, second \in SUBSET AuxDays, rest \in SUBSET AuxDays :
        /\ basin = b0901 => first = {} /\ second = {} /\ rest = {}
        /\ LET data_dir == [hydroatlas_forcing |-> AuxFiles(first, second, rest, {b1403})]
           IN Done([fn |-> "load_hydroatlas12_daily_forcing", data_dir |-> data_dir,
                    basin |-> basin],
                   load_hydroatlas12_daily_forcing(data_dir, basin))

Call_load_basin_forcings ==
    /\ pc = "idle"
    /\ \E basin_id \in Basins, forcings \in Products,
          camels \in Catalogs, hydroatlas \in {<<>>, <<b1403>>, <<b0901, b1403>>},
          header \in Headers, days \in ListedDaySets,
          snotel_days \in {{}, {D20001002}, {D19990930}} :
        LET data_dir == BasinDataDir(camels, hydroatlas, header, days, FALSE, NoDir,
                                     {D20001001} \cap days, snotel_days, <<>>)
        IN Done([fn |-> "load_basin_forcings", data_dir |-> data_dir,
                 basin_id |-> basin_id, forcings |-> forcings],
                load_basin_forcings(data_dir, basin_id, forcings))

Call_load_all_discharge ==
    /\ pc = "idle"
    /\ \E basin \in {b0901, b0902}, area \in Areas,
          listing \in SeqsUpTo(ListedStreamFiles, MaxFiles)
                         \cup {<<StreamFile(b0901, rows)>> : rows \in StreamRows} :
        LET data_dir == [usgs_streamflow |-> listing]
        IN Done([fn |-> "load_all_discharge", data_dir |-> data_dir,
                 basin |-> basin, area |-> area],
                load_all_discharge(data_dir, basin, area))

Call_load_basin_data ==
    /\ pc = "idle"
    /\ \E basin \in Basins, cfg \in Configs, flow \in BOOLEAN,
          days \in {{D20001001, D20001002}, {D20000930, D20001001, D20141231}},
          rows \in {r \in StreamRows : DOMAIN r # {}} :
        LET data_dir == BasinDataDir(<<b0901, b0902>>, <<b1403>>, <<40, 2500, 500>>, days, flow,
                             Dir(<<ForcingFile(b0901, <<40, 2500, 3>>,
                                               {D20001001, D20001002}, TRUE)>>),
                             {D20001001}, {}, <<StreamFile(b0901, rows),
                                                StreamFile(b1403, rows)>>)
        IN Done([fn |-> "_load_basin_data", cfg |-> cfg, data_dir |-> data_dir,
                 basin |-> basin],
                load_basin_data(cfg, data_dir, basin))

Call_load_camels_attributes ==
    /\ pc = "idle"
    /\ \E exists \in BOOLEAN, gauge_ids \in SUBSET Basins,
          basins \in SeqsUpTo(Basins, 1) :
        /\ ~exists => gauge_ids = {}
        /\ gauge_ids # {} \/ ~exists
        /\ LET data_dir == [camels_attributes |-> AttributeFiles(exists, gauge_ids)]
           IN Done([fn |-> "load_camels_attributes", data_dir |-> data_dir,
                    basins |-> basins],
                   load_camels_attributes(data_dir, basins))

Call_load_camels_hydroatlas ==
    /\ pc = "idle"
    /\ \E raw_file \in BOOLEAN, pca_file \in BOOLEAN,
          raw_ids \in SUBSET Basins, pca_ids \in SUBSET {b0901, b1403},
          basins \in SeqsUpTo(Basins, MaxBasins) :
        /\ ~raw_file => raw_ids = {}
        /\ ~pca_file => pca_ids = {}
        /\ LET data_dir == [hydroatlas_attributes |->
                               [raw |-> HydroatlasFile(raw_file, raw_ids),
                                pca |-> HydroatlasFile(pca_file, pca_ids)]]
           IN Done([fn |-> "load_camels_hydroatlas", data_dir |-> data_dir,
                    basins |-> basins],
                   load_camels_hydroatlas(data_dir, basins))

Call_add_hydroatlas_attributes_to_camels ==
    /\ pc = "idle"
    /\ \E ids \in SUBSET Basins, raw_ids \in SUBSET Basins, pca_ids \in SUBSET Basins,
          raw_column \in {c_ele_mt, c_p_mean}, pca_column \in {c_PC1, c_ele_mt} :
        /\ ids # {}
        /\ raw_column = c_p_mean \/ pca_column = c_ele_mt
              => raw_ids = Basins /\ pca_ids = Basins
        /\ LET df == huc_column(concat_columns(
                         read_attribute_files(AttributeFiles(TRUE, ids))))
               hydroatlas_df ==
                   read_hydroatlas(HydroatlasFile(TRUE, raw_ids), raw_column, 300)
               hydroatlas_pca_df ==
                   read_hydroatlas(HydroatlasFile(TRUE, pca_ids), pca_column, 900)
           IN Done([fn |-> "add_hydroatlas_attributes_to_camels", df |-> df,
                    hydroatlas_df |-> hydroatlas_df,
                    hydroatlas_pca_df |-> hydroatlas_pca_df],
                   add_hydroatlas_attributes_to_camels(
                       df, hydroatlas_df, hydroatlas_pca_df))

Call_load_all_attributes ==
    /\ pc = "idle"
    /\ \E camels \in Catalogs, hydroatlas \in {<<>>, <<b1403>>},
          exists \in BOOLEAN, raw_file \in BOOLEAN, pca_file \in BOOLEAN,
          gauge_ids \in SUBSET Basins, raw_ids \in SUBSET {b0901, b1403},
          pca_ids \in SUBSET {b0902},
          basins \in SeqsUpTo(Basins, MaxBasins) :
        /\ gauge_ids # {}
        /\ ~(exists /\ raw_file /\ pca_file)
              => /\ gauge_ids = Basins /\ raw_ids = {} /\ pca_ids = {}
                 /\ camels = <<b0901>> /\ hydroatlas = <<>>
        /\ LET data_dir == [list_671_camels_basins |-> camels,
                    list_colorado_hydroatlas_basins |-> hydroatlas,
                    camels_attributes |-> AttributeFiles(exists, gauge_ids),
                    hydroatlas_attributes |->
                        [raw |-> HydroatlasFile(raw_file, raw_ids),
                         pca |-> HydroatlasFile(pca_file, pca_ids)]]
           IN Done([fn |-> "load_all_attributes", data_dir |-> data_dir,
                    basins |-> basins],
                   load_all_attributes(data_dir, basins))

Init ==
    /\ pc = "idle"
    /\ call = [fn |-> "none"]
    /\ result = [status |-> "none"]

Return ==
    /\ pc = "done"
    /\ pc' = "idle"
    /\ call' = [fn |-> "none"]
    /\ result' = [status |-> "none"]

Next ==
    \/ Call_load_camels_daily_forcings
    \/ Call_load_and_add_SWE_data_to_forcing
    \/ Call_load_hydroatlas12_daily_forcing
    \/ Call_load_basin_forcings
    \/ Call_load_all_discharge
    \/ Call_load_basin_data
    \/ Call_load_camels_attributes
    \/ Call_load_camels_hydroatlas
    \/ Call_add_hydroatlas_attributes_to_camels
    \/ Call_load_all_attributes
    \/ Return

Spec == Init /\ [][Next]_vars

---------------------------------------------------------------------------
(* What the properties read off a call. *)

Called(fn) == pc = "done" /\ call.fn = fn

Returned(fn) == Called(fn) /\ result.status = "ok"

(* an outcome that carries no value *)
NothingReturned == DOMAIN result = {"status", "msg", "calls"}

MissingAttributes ==
    /\ result.status = "ValueError"
    /\ result.msg = "Some basins are missing static attributes."

(* the attribute folder and both auxiliary attribute files are there *)
AttributeSourcesPresent ==
    /\ call.data_dir.camels_attributes.exists
    /\ call.data_dir.hydroatlas_attributes.raw.is_file
    /\ call.data_dir.hydroatlas_attributes.pca.is_file

(* C1: for a non-empty list of basins, load_all_attributes returns a      *)
(* table with a row for every requested basin, in the order asked, or     *)
(* raises 'Some basins are missing static attributes': with the attribute *)
(* sources in place there is no third outcome, and a requested basin that *)
(* the primary attribute table lacks (whatever catalog lists it) always   *)
(* gives the error.                                                       *)
C1_AllRequestedOrError ==
    Called("load_all_attributes") /\ call.basins # <<>> =>
        /\ result.status = "ok" =>
              /\ \A i \in DOMAIN call.basins : call.basins[i] \in result.df.index
              /\ result.df.index = Range(call.basins)
              /\ result.rows = call.basins
        /\ AttributeSourcesPresent => result.status = "ok" \/ MissingAttributes
        /\ AttributeSourcesPresent
              /\ (\E i \in DOMAIN call.basins :
                     call.basins[i] \notin call.data_dir.camels_attributes.gauge_ids)
              => MissingAttributes /\ NothingReturned

(* a table returned for two basins, one of them outside the primary       *)
(* catalog                                                                *)
C1_Witness ==
    /\ Returned("load_all_attributes")
    /\ Len(call.basins) = 2 /\ call.basins[1] # call.basins[2]
    /\ \E i \in 1..2 : ~InList(call.basins[i], call.data_dir.list_671_camels_basins)
    /\ result.df.index = {call.basins[1], call.basins[2]}

InNeitherCatalog ==
    /\ ~InList(call.basin_id, call.data_dir.list_671_camels_basins)
    /\ ~InList(call.basin_id, call.data_dir.list_colorado_hydroatlas_basins)

(* C2: load_basin_forcings of a basin in neither catalog raises the       *)
(* 'not found in either' RuntimeError, returns no table and no area, and  *)
(* invokes no loader.                                                     *)
C2_UnknownBasinRaises ==
    Called("load_basin_forcings") /\ InNeitherCatalog =>
        /\ result.status = "RuntimeError"
        /\ result.msg = "Basin ID not found in either CAMELS Nor HydroAtlas"
        /\ NothingReturned
        /\ result.calls = <<>>

(* the basin is in neither catalog although the directory has a forcing   *)
(* file for it                                                            *)
C2_Witness ==
    /\ Called("load_basin_forcings") /\ InNeitherCatalog
    /\ call.data_dir.basin_mean_forcing[call.forcings].is_dir
    /\ \E i \in DOMAIN call.data_dir.basin_mean_forcing[call.forcings].files :
          call.data_dir.basin_mean_forcing[call.forcings].files[i].basin = call.basin_id
    /\ result.status = "RuntimeError"

(* the forcing files of the called product that match the basin *)
MatchingFiles ==
    SelectSeq(call.data_dir.basin_mean_forcing[call.forcings].files,
              LAMBDA f : f.basin = call.basin_id)

(* C3: load_basin_forcings picks the source by catalog membership, the    *)
(* primary catalog first: a primary basin goes to the primary loader and  *)
(* then through the SWE enrichment, its area from the file header; a      *)
(* basin of the auxiliary catalog only goes to the auxiliary loader, gets *)
(* no SWE column and the area 1.                                          *)
C3_SourceByCatalog ==
    Called("load_basin_forcings") =>
        /\ InList(call.basin_id, call.data_dir.list_671_camels_basins) =>
              /\ result.calls # <<>>
              /\ result.calls[1] = "load_camels_daily_forcings"
              /\ "load_hydroatlas12_daily_forcing" \notin Range(result.calls)
              /\ Len(result.calls) = 1 =>
                    result.status \in {"OSError", "FileNotFoundError"}
              /\ result.status = "ok" =>
                    /\ result.calls = <<"load_camels_daily_forcings",
                                        "load_and_add_SWE_data_to_forcing">>
                    /\ {c_co_swe_ua, c_co_swe_snotel} \subseteq Columns(result.df)
                    /\ result.area = MatchingFiles[1].header[3]
        /\ ~InList(call.basin_id, call.data_dir.list_671_camels_basins)
              /\ InList(call.basin_id, call.data_dir.list_colorado_hydroatlas_basins) =>
              /\ result.calls = <<"load_hydroatlas12_daily_forcing">>
              /\ result.status = "ok" =>
                    /\ result.area = 1
                    /\ Columns(result.df) = Range(AuxVariables)

(* a basin listed in both catalogs, loaded as a primary basin *)
C3_Witness ==
    /\ Returned("load_basin_forcings")
    /\ InList(call.basin_id, call.data_dir.list_671_camels_basins)
    /\ InList(call.basin_id, call.data_dir.list_colorado_hydroatlas_basins)
    /\ result.calls = <<"load_camels_daily_forcings", "load_and_add_SWE_data_to_forcing">>
    /\ result.area = 500

(* C4: every date of the table load_and_add_SWE_data_to_forcing returns   *)
(* is on or after 2000-10-01, whatever dates the input table has; the     *)
(* same holds of a primary basin's table from load_basin_forcings.        *)
C4_StartsAt20001001 ==
    /\ Returned("load_and_add_SWE_data_to_forcing") =>
          \A t \in result.df.index : t >= to_datetime(2000, 10, 1)
    /\ Returned("load_basin_forcings")
          /\ InList(call.basin_id, call.data_dir.list_671_camels_basins) =>
          \A t \in result.df.index : t >= to_datetime(2000, 10, 1)

(* an input table with dates before 1999-10-01, between the two starts    *)
(* and after them, enriched by both passes                                *)
C4_Witness ==
    /\ Returned("load_and_add_SWE_data_to_forcing")
    /\ {Stamp(D19990930), Stamp(D19991001), Stamp(D20000930), Stamp(D20001001)}
          \subseteq call.df.index
    /\ Stamp(D20001001) \in result.df.index
    /\ ~IsMissing(result.df.col[c_co_swe_ua][Stamp(D20001001)])

(* the name has 'qobs' in it, whatever the case of its letters *)
NamesDischarge(c) ==
    \E i \in 1..(Len(c) - 3) :
        /\ c[i] \in {"q", "Q"} /\ c[i + 1] \in {"o", "O"}
        /\ c[i + 2] \in {"b", "B"} /\ c[i + 3] \in {"s", "S"}

(* C5: in the table _load_basin_data returns, a column whose name has     *)
(* 'qobs' in it in any letter case has no negative entry: its negative    *)
(* entries have become NaN, its zero, positive and NaN entries are as     *)
(* they were, and every other column is as it was.                        *)
C5_NegativeDischargeIsNaN ==
    Returned("_load_basin_data") =>
        \A before \in {assemble_basin_data(call.cfg, call.data_dir, call.basin)} :
            /\ before.status = "ok"
            /\ result.df.index = before.df.index
            /\ Columns(result.df) = Columns(before.df)
            /\ \A c \in Columns(before.df) : \A t \in before.df.index :
                  IF NamesDischarge(c)
                  THEN /\ ~IsNegative(result.df.col[c][t])
                       /\ IsNegative(before.df.col[c][t]) => result.df.col[c][t] = NaN
                       /\ ~IsNegative(before.df.col[c][t])
                             => result.df.col[c][t] = before.df.col[c][t]
                  ELSE result.df.col[c][t] = before.df.col[c][t]

(* a negative entry of a discharge column with capitals in its name has   *)
(* become NaN, a zero entry of a discharge column is kept, and a negative *)
(* entry of another column is kept too                                    *)
C5_Witness ==
    /\ Returned("_load_basin_data")
    /\ \E before \in {assemble_basin_data(call.cfg, call.data_dir, call.basin)} :
          /\ \E c \in Columns(before.df) : \E t \in before.df.index :
                /\ NamesDischarge(c) /\ c # lower(c)
                /\ IsNegative(before.df.col[c][t])
                /\ result.df.col[c][t] = NaN
          /\ \E c \in Columns(before.df) : \E t \in before.df.index :
                /\ NamesDischarge(c)
                /\ RatEq(before.df.col[c][t], Num(0))
                /\ result.df.col[c][t] = before.df.col[c][t]
          /\ \E c \in Columns(before.df) : \E t \in before.df.index :
                /\ ~NamesDischarge(c)
                /\ IsNegative(before.df.col[c][t])
                /\ result.df.col[c][t] = before.df.col[c][t]

(* C6: add_hydroatlas_attributes_to_camels is a left join on the basin    *)
(* id: the result has exactly the rows of the primary table with their    *)
(* values unchanged, an auxiliary column holds the auxiliary row's value  *)
(* where the basin has one and NaN where it has none, and an auxiliary    *)
(* row without a primary match is not in the result.                      *)
C6_LeftJoin ==
    Returned("add_hydroatlas_attributes_to_camels") =>
        /\ result.df.index = call.df.index
        /\ Columns(result.df) = Columns(call.df) \cup Columns(call.hydroatlas_df)
                                   \cup Columns(call.hydroatlas_pca_df)
        /\ \A c \in Columns(call.df) : \A b \in call.df.index :
              result.df.col[c][b] = call.df.col[c][b]
        /\ \A aux \in {call.hydroatlas_df, call.hydroatlas_pca_df} :
              /\ \A c \in Columns(aux) : \A b \in call.df.index :
                    result.df.col[c][b] =
                        IF b \in aux.index THEN aux.col[c][b] ELSE NaN
              /\ \A b \in aux.index \ call.df.index : b \notin result.df.index

(* the join of tables in which a primary basin has no auxiliary row, an   *)
(* auxiliary row has no primary basin, and a basin has both               *)
C6_Witness ==
    /\ Returned("add_hydroatlas_attributes_to_camels")
    /\ call.df.index \ call.hydroatlas_df.index # {}
    /\ call.hydroatlas_df.index \ call.df.index # {}
    /\ call.hydroatlas_pca_df.index \ call.df.index # {}
    /\ call.df.index \cap call.hydroatlas_df.index # {}
    /\ \E b \in call.df.index : IsMissing(result.df.col[c_ele_mt][b])

(* the dates of the forcing file the loader reads *)
FileDates == {Stamp(ymd) : ymd \in MatchingFiles[1].days}

(* C7: for a basin of the primary catalog, the table load_basin_forcings  *)
(* returns has exactly the dates of the basin's forcing file that are on  *)
(* or after 2000-10-01, so that it has no gap where the file has none,    *)
(* and the area is the integer of the third header line; the table of     *)
(* load_camels_daily_forcings has exactly the dates of the file.          *)
C7_DatesOfFileAndArea ==
    /\ Returned("load_basin_forcings")
          /\ InList(call.basin_id, call.data_dir.list_671_camels_basins) =>
          /\ result.df.index = {t \in FileDates : t >= to_datetime(2000, 10, 1)}
          /\ NoGaps({t \in FileDates : t >= to_datetime(2000, 10, 1)})
                => NoGaps(result.df.index)
          /\ result.area = MatchingFiles[1].header[3]
          /\ result.area \in Nat
    /\ Returned("load_camels_daily_forcings") =>
          /\ result.df.index = FileDates
          /\ result.area = MatchingFiles[1].header[3]
          /\ result.area \in Nat

(* a primary basin whose file has a gap before 2000-10-01 only: the       *)
(* table starts at 2000-10-01 and has none                                *)
C7_Witness ==
    /\ Returned("load_basin_forcings")
    /\ InList(call.basin_id, call.data_dir.list_671_camels_basins)
    /\ ~NoGaps(FileDates)
    /\ result.df.index = {Stamp(D20001001), Stamp(D20001002)}
    /\ result.area = 500
    /\ MatchingFiles[1].header = <<40, 2500, 500>>

(* C7 as the specification words it: the table of a primary basin has no  *)
(* gap in its dates and the area is the positive integer of the third     *)
(* header line.                                                           *)
C7_NoDateGaps ==
    Returned("load_basin_forcings")
        /\ InList(call.basin_id, call.data_dir.list_671_camels_basins) =>
        /\ NoGaps(result.df.index)
        /\ result.area = MatchingFiles[1].header[3]
        /\ result.area > 0

(* the streamflow file load_all_discharge reads *)
StreamflowFile ==
    SelectSeq(call.data_dir.usgs_streamflow, LAMBDA f : f.basin = call.basin)[1]

(* 28316846.592 * q * 86400 / (area * 10**6) of a file's integer q, as a  *)
(* fraction of integers: 28316846592 * q * 86400 over                     *)
(* 1000 * area * 10**6                                                    *)
MmPerDay(q, area) ==
    Rat(q < 0,
        BigMul(BigMul(<<6592, 1684, 283>>, BigOfNat(IF q < 0 THEN -q ELSE q)),
               BigOfNat(86400)),
        BigMul(BigOfNat(1000), BigMul(BigOfNat(area), BigOfNat(1000000))))

(* C8: load_all_discharge returns, for every date of the basin's          *)
(* streamflow file, 28316846.592 * QObs * 86400 / (area * 10**6) of that  *)
(* day's cubic feet per second (4893151.0910976 for 1000 cfs and area     *)
(* 500), and it returns the series only, the quality flag left out.       *)
C8_DischargeConversion ==
    Returned("load_all_discharge") =>
        /\ DOMAIN result = {"status", "calls", "QObs"}
        /\ DOMAIN result.QObs = {Stamp(ymd) : ymd \in DOMAIN StreamflowFile.rows}
        /\ \A ymd \in DOMAIN StreamflowFile.rows :
              /\ RatEq(result.QObs[Stamp(ymd)],
                       MmPerDay(StreamflowFile.rows[ymd].QObs, call.area))
              /\ StreamflowFile.rows[ymd].QObs = 1000 /\ call.area = 500
                    => RatEq(result.QObs[Stamp(ymd)],
                             Rat(FALSE, <<976, 1091, 9315, 48>>, <<0, 1000>>))

(* 1000 cubic feet per second over an area of 500 *)
C8_Witness ==
    /\ Returned("load_all_discharge")
    /\ call.area = 500
    /\ \E ymd \in DOMAIN StreamflowFile.rows :
          /\ StreamflowFile.rows[ymd].QObs = 1000
          /\ StreamflowFile.rows[ymd].flag = "A:e"
          /\ RatEq(result.QObs[Stamp(ymd)],
                   Rat(FALSE, <<976, 1091, 9315, 48>>, <<0, 1000>>))

(* the dates an enrichment file has up to 2014-12-31 *)
SweDates(file) ==
    {t \in {Stamp(ymd) : ymd \in file.days} : t <= to_datetime(2014, 12, 31)}

(* both enrichment files are there, each with a column for the basin *)
SweSourcesPresent ==
    /\ call.data_dir.colorado_swe.ua.exists
    /\ call.data_dir.colorado_swe.snotel.exists
    /\ ua_column(call.basin) \in call.data_dir.colorado_swe.ua.columns
    /\ snotel_column(call.basin) \in call.data_dir.colorado_swe.snotel.columns

(* C9: the SWE columns are assigned by date match: a date of the          *)
(* enrichment source that the target table lacks is ignored, raising no   *)
(* error and adding no row, and a date of the target table that the       *)
(* source lacks gets NaN; in the first pass and in the second.            *)
C9_UnmatchedDatesIgnored ==
    Called("load_and_add_SWE_data_to_forcing") /\ SweSourcesPresent =>
        /\ result.status = "ok"
        /\ result.df.index \subseteq call.df.index
        /\ \A t \in result.df.index :
              /\ IsMissing(result.df.col[c_co_swe_ua][t])
                    <=> t \notin SweDates(call.data_dir.colorado_swe.ua)
              /\ IsMissing(result.df.col[c_co_swe_snotel][t])
                    <=> t \notin SweDates(call.data_dir.colorado_swe.snotel)

(* the forcing directory of the called product *)
ForcingDir == call.data_dir.basin_mean_forcing[call.forcings]

(* C10: load_camels_daily_forcings fails fast and in order: without the   *)
(* forcing directory it raises the 'does not exist' OSError and searches  *)
(* for no file; with the directory and no file for the basin it raises    *)
(* the 'No file for Basin' FileNotFoundError; neither returns a table or  *)
(* an area; with several files for the basin it reads the first found.    *)
C10_FailFastInOrder ==
    Called("load_camels_daily_forcings") =>
        /\ ~ForcingDir.is_dir =>
              /\ result.status = "OSError" /\ result.msg = "does not exist"
              /\ result.calls = <<"is_dir">>
              /\ NothingReturned
        /\ ForcingDir.is_dir /\ MatchingFiles = <<>> =>
              /\ result.status = "FileNotFoundError"
              /\ result.msg = "No file for Basin"
              /\ result.calls = <<"is_dir", "glob">>
              /\ NothingReturned
        /\ ForcingDir.is_dir /\ MatchingFiles # <<>> =>
              /\ result.status = "ok"
              /\ result.calls = <<"is_dir", "glob", "open">>
              /\ result.area = MatchingFiles[1].header[3]
              /\ result.df.index = {Stamp(ymd) : ymd \in MatchingFiles[1].days}

(* two files for the basin that differ in area and in dates: the first    *)
(* is the one read                                                        *)
C10_Witness ==
    /\ Returned("load_camels_daily_forcings")
    /\ Len(MatchingFiles) = 2
    /\ MatchingFiles[1].header[3] # MatchingFiles[2].header[3]
    /\ MatchingFiles[1].days # MatchingFiles[2].days
    /\ result.area = MatchingFiles[1].header[3]

(* the dates of the k-th of the five source files *)
AuxDates(k) ==
    {Stamp(ymd) : ymd \in call.data_dir.hydroatlas_forcing[AuxVariables[k]].days}

(* the dates observed in any of the five source files *)
ObservedDates == UNION {AuxDates(k) : k \in 1..5}

(* C11: the table load_hydroatlas12_daily_forcing returns has a row for   *)
(* every calendar day from the smallest to the largest date of the five   *)
(* source files and for no other day, so it has no gap; a day that no     *)
(* source file has is a row of NaN, and a day a source file has keeps     *)
(* that file's value for the basin in the file's column, the columns of   *)
(* the files that lack the day being NaN.                                 *)
C11_CompleteDailyCalendar ==
    Returned("load_hydroatlas12_daily_forcing") =>
        /\ ObservedDates # {}
        /\ \A lo \in ObservedDates : \A hi \in ObservedDates :
              (\A t \in ObservedDates : lo <= t /\ t <= hi)
                 => result.df.index = lo..hi
        /\ NoGaps(result.df.index)
        /\ Columns(result.df) = Range(AuxVariables)
        /\ \A k \in 1..5 : \A t \in result.df.index :
              result.df.col[AuxVariables[k]][t] =
                 IF t \in AuxDates(k)
                 THEN read_aux_column(call.data_dir.hydroatlas_forcing[AuxVariables[k]],
                                      k).col[AuxVariables[k]][t]
                 ELSE NaN

(* files with 2000-10-01, 2000-10-02 and 2000-10-04 between them: the     *)
(* table has 2000-10-03 as a row of NaN, and a day only some files have   *)
(* with values and NaN side by side                                       *)
C11_Witness ==
    /\ Returned("load_hydroatlas12_daily_forcing")
    /\ to_datetime(2000, 10, 3) \notin ObservedDates
    /\ to_datetime(2000, 10, 3) \in result.df.index
    /\ \A k \in 1..5 :
          IsMissing(result.df.col[AuxVariables[k]][to_datetime(2000, 10, 3)])
    /\ \E t \in result.df.index :
          /\ ~IsMissing(result.df.col[c_apcpsfc][t])
          /\ IsMissing(result.df.col[c_dswrfsfc][t])

====
